---- MODULE Spec2Model ----
(***************************************************************************)
(* Model of backend/main.py of reddit-video-generator: the caption         *)
(* segmenter (create_subtitles) and the render-job lifecycle               *)
(* (create_video, generate_video_async) over the videos table, the         *)
(* working directory and the media handles a job opens.                    *)
(*                                                                         *)
(* Text is a sequence of character codes: 0 is a space, 1 a newline, and   *)
(* codes from 2 upwards are letters.  Times are in milliseconds.           *)
(***************************************************************************)
EXTENDS Integers, Sequences, FiniteSets, TLC

\* ---------------------------------------------------------------- bounds
MaxWords == 20
MaxDuration == 2
MaxJobs == 2

\* ------------------------------------------------------ program constants
ChunkSize == 8
words_per_minute == 150
MsPerMinute == 60 * 1000

\* The server processes serving the app from one working directory: each has
\* its own event loop and its own summarizer and tts_model globals; app.db,
\* videos/ and temp-audio.m4a are shared between them.
Workers == {"w1", "w2"}

VARIABLES
    started,        \* worker -> startup_event has run
    summarizer,     \* worker -> the global summarizer is not None
    tts_model,      \* worker -> the global tts_model is not None
    running,        \* worker -> id of the task whose body is executing, 0 if none
    videos,         \* the videos table: row id -> [status, video_path]
    task,           \* job id -> the frame of its generate_video_async task
    handles,        \* job id -> media handles opened and not closed
    fs,             \* path -> file in the working directory
    seg_text,       \* create_subtitles: argument text
    seg_duration,   \* create_subtitles: argument duration
    seg_result,     \* create_subtitles: returned list
    seg_called      \* create_subtitles has returned

vars == <<started, summarizer, tts_model, running, videos, task, handles, fs,
          seg_text, seg_duration, seg_result, seg_called>>

jobVars == <<started, summarizer, tts_model, running, videos, task, handles, fs>>
segVars == <<seg_text, seg_duration, seg_result, seg_called>>

Min(a, b) == IF a < b THEN a ELSE b

\* ------------------------------------------------------------------ text
Whitespace == {0, 1}

\* str.split(): the maximal runs of non-whitespace characters, in order.
RECURSIVE SplitFrom(_, _, _, _)
SplitFrom(text, i, cur, acc) ==
    IF i > Len(text)
    THEN IF cur = <<>> THEN acc ELSE Append(acc, cur)
    ELSE IF text[i] \in Whitespace
         THEN SplitFrom(text, i + 1, <<>>,
                        IF cur = <<>> THEN acc ELSE Append(acc, cur))
         ELSE SplitFrom(text, i + 1, Append(cur, text[i]), acc)

Split(text) == SplitFrom(text, 1, <<>>, <<>>)

\* ' '.join(ws)
RECURSIVE Join(_)
Join(ws) ==
    IF ws = <<>> THEN <<>>
    ELSE IF Len(ws) = 1 THEN ws[1]
    ELSE ws[1] \o <<0>> \o Join(Tail(ws))

\* words[i:i+8], with i the 1-based position of the first word of the chunk
SliceShort(words, i) == SubSeq(words, i, Min(i + ChunkSize - 2, Len(words)))
Slice(words, i) == SubSeq(words, i, Min(i + ChunkSize - 1, Len(words)))

\* len(words[i:i+8]) / words_per_second, words_per_second = wpm / 60
chunk_duration_full(chunk, wpm) == (ChunkSize * MsPerMinute) \div wpm
chunk_duration(chunk, wpm) == (Len(chunk) * MsPerMinute) \div wpm

\* the body of the for loop of create_subtitles, from word position i on
RECURSIVE SubtitleLoop(_, _, _, _, _)
SubtitleLoop(words, i, current_time, subtitles, wpm) ==
    IF i > Len(words) THEN subtitles
    ELSE LET chunk == Slice(words, i)
             start_time == current_time
             end_time == current_time + chunk_duration(chunk, wpm)
         IN  SubtitleLoop(words, i + ChunkSize, end_time,
                 Append(subtitles, [start |-> start_time,
                                    end   |-> end_time,
                                    text  |-> Join(chunk)]),
                 wpm)

create_subtitles(text, duration) ==
    SubtitleLoop(Split(text), 1, 0, <<>>, words_per_minute)

\* ---------------------------------------------------- segmenter inputs
\* word k of the generated texts: distinct words of one or two letters
Word(k) == IF k % 2 = 1 THEN <<k + 1>> ELSE <<k + 1, k + 1>>

RECURSIVE MkText(_, _, _)
MkText(n, sep, k) ==
    IF k > n THEN <<>>
    ELSE IF k = n THEN Word(k)
    ELSE Word(k) \o sep \o MkText(n, sep, k + 1)

Texts ==
    {MkText(n, <<0>>, 1) : n \in 0..MaxWords}
    \cup {<<0>> \o MkText(n, <<0, 0>>, 1) \o <<1>> : n \in 0..MaxWords}
    \cup {MkText(n, <<1>>, 1) \o <<0, 1>> : n \in 0..MaxWords}

\* ----------------------------------------------------------- file system
audio_path(video_id) == <<"videos/audio_.wav", video_id>>
output_path(video_id) == <<"videos/video_.mp4", video_id>>
temp_audiofile == <<"temp-audio.m4a", 0>>

Paths == {audio_path(i) : i \in 1..MaxJobs}
         \cup {output_path(i) : i \in 1..MaxJobs}
         \cup {temp_audiofile}

Absent == [state |-> "absent", writer |-> 0]
Partial(j) == [state |-> "partial", writer |-> j]
Complete(j) == [state |-> "complete", writer |-> j]

NULL == <<"NULL", 0>>

\* ---------------------------------------------------------- media handles
audio_clip == <<"audio_clip", 0>>
green_screen == <<"green_screen", 0>>
txt_clip(k) == <<"txt_clip", k>>
final_video == <<"final_video", 0>>

\* the narration texts handed to create_video: none, 5 and 9 words
JobTexts == {MkText(0, <<0>>, 1), MkText(5, <<0>>, 1), MkText(9, <<0>>, 1)}

JobIds == 1..Len(videos)

\* ------------------------------------------------------------------ Init
InitJobs ==
    /\ started = [w \in Workers |-> FALSE]
    /\ summarizer = [w \in Workers |-> FALSE]
    /\ tts_model = [w \in Workers |-> FALSE]
    /\ running = [w \in Workers |-> 0]
    /\ videos = <<>>
    /\ task = <<>>
    /\ handles = <<>>
    /\ fs = [p \in Paths |-> Absent]

Init ==
    /\ InitJobs
    /\ seg_text = <<>>
    /\ seg_duration = 1
    /\ seg_result = <<>>
    /\ seg_called = FALSE

\* --------------------------------------------------------------- startup
\* init_ai_models: the summarizer is built first, then the TTS model; an
\* exception at either point is logged and leaves the later globals None.
init_ai_models(w) ==
    \E r \in {<<FALSE, FALSE>>, <<TRUE, FALSE>>, <<TRUE, TRUE>>} :
        /\ summarizer' = [summarizer EXCEPT ![w] = r[1]]
        /\ tts_model' = [tts_model EXCEPT ![w] = r[2]]

startup_event(w) ==
    /\ ~started[w]
    /\ init_ai_models(w)
    /\ started' = [started EXCEPT ![w] = TRUE]
    /\ UNCHANGED <<running, videos, task, handles, fs, segVars>>

\* ----------------------------------------------------------- create_video
\* A request that raises before the INSERT commits (bad URL, summarizer is
\* None, Reddit or database error) answers 4xx/5xx and leaves no row and no
\* task; only the path that registers a job changes the state.  The handler
\* has no await, so it runs only while no task body occupies the event loop.
create_video(w, final_summary) ==
    /\ started[w]
    /\ summarizer[w]
    /\ running[w] = 0
    /\ Len(videos) < MaxJobs
    /\ videos' = Append(videos, [status |-> "processing", video_path |-> NULL])
    /\ task' = Append(task, [worker |-> w, text |-> final_summary,
                             pc |-> "scheduled", subtitles |-> <<>>,
                             clips |-> 0, exc |-> "none"])
    /\ handles' = Append(handles, {})
    /\ UNCHANGED <<started, summarizer, tts_model, running, fs, segVars>>

\* --------------------------------------------------- generate_video_async
At(j, loc) == j \in JobIds /\ task[j].pc = loc

Goto(j, loc) == [task EXCEPT ![j].pc = loc]

\* an exception inside the try block: control moves to the except clause
RaisedEscapes(j) == [task EXCEPT ![j].pc = "done", ![j].exc = "escaped"]
Raised(j) == [task EXCEPT ![j].pc = "except", ![j].exc = "caught"]

\* asyncio runs the tasks of one event loop in creation order, each body
\* (which has no await) from start to end before anything else of that loop.
NextTask(j) ==
    /\ At(j, "scheduled")
    /\ running[task[j].worker] = 0
    /\ \A i \in 1..(j - 1) :
           ~(task[i].worker = task[j].worker /\ task[i].pc = "scheduled")

\* lines 335-337
tts_to_file(j) ==
    /\ NextTask(j)
    /\ running' = [running EXCEPT ![task[j].worker] = j]
    /\ IF tts_model[task[j].worker]
       THEN \/ /\ fs' = [fs EXCEPT ![audio_path(j)] = Complete(j)]
               /\ task' = Goto(j, "audio_clip")
            \/ /\ \E f \in {fs[audio_path(j)], Partial(j)} :
                      fs' = [fs EXCEPT ![audio_path(j)] = f]
               /\ task' = Raised(j)
       ELSE /\ fs' = fs
            /\ task' = Goto(j, "audio_clip")
    /\ UNCHANGED <<started, summarizer, tts_model, videos, handles, segVars>>

\* lines 340-341
AudioFileClip(j) ==
    /\ At(j, "audio_clip")
    /\ \/ /\ fs[audio_path(j)].state = "complete"
          /\ handles' = [handles EXCEPT ![j] = @ \cup {audio_clip}]
          /\ task' = Goto(j, "subtitles")
       \/ /\ handles' = handles
          /\ task' = Raised(j)
    /\ UNCHANGED <<started, summarizer, tts_model, running, videos, fs, segVars>>

\* line 344
segment_captions(j) ==
    /\ At(j, "subtitles")
    /\ task' = [task EXCEPT ![j].pc = "green_screen",
                            ![j].subtitles = create_subtitles(task[j].text, 1)]
    /\ UNCHANGED <<started, summarizer, tts_model, running, videos, handles,
                   fs, segVars>>

\* line 350
ColorClip(j) ==
    /\ At(j, "green_screen")
    /\ \/ /\ handles' = [handles EXCEPT ![j] = @ \cup {green_screen}]
          /\ task' = Goto(j, "txt_clip")
       \/ /\ handles' = handles
          /\ task' = Raised(j)
    /\ UNCHANGED <<started, summarizer, tts_model, running, videos, fs, segVars>>

\* lines 353-365, one iteration of the loop
TextClip(j) ==
    /\ At(j, "txt_clip")
    /\ task[j].clips < Len(task[j].subtitles)
    /\ \/ /\ handles' = [handles EXCEPT ![j] = @ \cup {txt_clip(task[j].clips + 1)}]
          /\ task' = [task EXCEPT ![j].clips = @ + 1]
       \/ /\ handles' = handles
          /\ task' = Raised(j)
    /\ UNCHANGED <<started, summarizer, tts_model, running, videos, fs, segVars>>

\* lines 368-369, after the loop
CompositeVideoClip(j) ==
    /\ At(j, "txt_clip")
    /\ task[j].clips = Len(task[j].subtitles)
    /\ \/ /\ handles' = [handles EXCEPT ![j] = @ \cup {final_video}]
          /\ task' = Goto(j, "enc_audio")
       \/ /\ handles' = handles
          /\ task' = Raised(j)
    /\ UNCHANGED <<started, summarizer, tts_model, running, videos, fs, segVars>>

\* lines 373-380, write_videofile: the audio track goes to temp_audiofile
write_audiofile(j) ==
    /\ At(j, "enc_audio")
    /\ \/ /\ fs' = [fs EXCEPT ![temp_audiofile] = Complete(j)]
          /\ task' = Goto(j, "enc_video")
       \/ /\ \E f \in {fs[temp_audiofile], Partial(j)} :
                 fs' = [fs EXCEPT ![temp_audiofile] = f]
          /\ task' = Raised(j)
    /\ UNCHANGED <<started, summarizer, tts_model, running, videos, handles, segVars>>

\* lines 373-380, write_videofile: ffmpeg encodes the frames to output_path
\* and muxes in the audio it reads from temp_audiofile
ffmpeg_write_video(j) ==
    /\ At(j, "enc_video")
    /\ \/ /\ fs[temp_audiofile].state = "complete"
          /\ fs' = [fs EXCEPT ![output_path(j)] = Complete(j)]
          /\ task' = Goto(j, "enc_exists")
       \/ /\ \E f \in {fs[output_path(j)], Partial(j)} :
                 fs' = [fs EXCEPT ![output_path(j)] = f]
          /\ task' = Raised(j)
    /\ UNCHANGED <<started, summarizer, tts_model, running, videos, handles, segVars>>

\* lines 373-380, write_videofile with remove_temp=True: os.path.exists
temp_exists(j) ==
    /\ At(j, "enc_exists")
    /\ task' = Goto(j, IF fs[temp_audiofile].state = "absent"
                       THEN "update" ELSE "enc_remove")
    /\ UNCHANGED <<started, summarizer, tts_model, running, videos, handles,
                   fs, segVars>>

\* lines 373-380, write_videofile with remove_temp=True: os.remove
remove_temp(j) ==
    /\ At(j, "enc_remove")
    /\ IF fs[temp_audiofile].state = "absent"
       THEN /\ fs' = fs
            /\ task' = Raised(j)
       ELSE /\ fs' = [fs EXCEPT ![temp_audiofile] = Absent]
            /\ task' = Goto(j, "update")
    /\ UNCHANGED <<started, summarizer, tts_model, running, videos, handles, segVars>>

\* lines 382-390: the UPDATE commits, or sqlite3 raises before the commit
update_completed(j) ==
    /\ At(j, "update")
    /\ \/ /\ videos' = [videos EXCEPT ![j] = [status |-> "completed",
                                              video_path |-> output_path(j)]]
          /\ task' = Goto(j, "close_audio")
       \/ /\ videos' = videos
          /\ task' = Raised(j)
    /\ UNCHANGED <<started, summarizer, tts_model, running, handles, fs, segVars>>

\* line 393
audio_clip_close(j) ==
    /\ At(j, "close_audio")
    /\ \/ /\ handles' = [handles EXCEPT ![j] = @ \ {audio_clip}]
          /\ task' = Goto(j, "close_final")
       \/ /\ handles' = handles
          /\ task' = Raised(j)
    /\ UNCHANGED <<started, summarizer, tts_model, running, videos, fs, segVars>>

\* lines 394-396: the last statements of the try block; the task returns
final_video_close(j) ==
    /\ At(j, "close_final")
    /\ \/ /\ handles' = [handles EXCEPT ![j] = @ \ {final_video, audio_clip}]
          /\ task' = Goto(j, "done")
          /\ running' = [running EXCEPT ![task[j].worker] = 0]
       \/ /\ handles' = handles
          /\ task' = Raised(j)
          /\ running' = running
    /\ UNCHANGED <<started, summarizer, tts_model, videos, fs, segVars>>

\* lines 398-409: the UPDATE sets only the status column; it commits, or
\* sqlite3 raises inside the except clause and the exception leaves the task
except_handler(j) ==
    /\ At(j, "except")
    /\ \/ /\ videos' = [videos EXCEPT ![j].status = "error"]
          /\ task' = Goto(j, "done")
       \/ /\ videos' = videos
          /\ task' = RaisedEscapes(j)
    /\ running' = [running EXCEPT ![task[j].worker] = 0]
    /\ UNCHANGED <<started, summarizer, tts_model, handles, fs, segVars>>

generate_video_async(j) ==
    \/ tts_to_file(j)
    \/ AudioFileClip(j)
    \/ segment_captions(j)
    \/ ColorClip(j)
    \/ TextClip(j)
    \/ CompositeVideoClip(j)
    \/ write_audiofile(j)
    \/ ffmpeg_write_video(j)
    \/ temp_exists(j)
    \/ remove_temp(j)
    \/ update_completed(j)
    \/ audio_clip_close(j)
    \/ final_video_close(j)
    \/ except_handler(j)

Next ==
    \/ \E w \in Workers : startup_event(w)
    \/ \E w \in Workers, t \in JobTexts : create_video(w, t)
    \/ \E j \in 1..MaxJobs : generate_video_async(j)

Spec == Init /\ [][Next]_vars

\* ------------------------------------------------- segmenter specification
InitSeg ==
    /\ InitJobs
    /\ seg_text \in Texts
    /\ seg_duration \in 1..MaxDuration
    /\ seg_result = <<>>
    /\ seg_called = FALSE

CallCreateSubtitles ==
    /\ ~seg_called
    /\ seg_result' = create_subtitles(seg_text, seg_duration)
    /\ seg_called' = TRUE
    /\ UNCHANGED <<seg_text, seg_duration, jobVars>>

NextSeg == CallCreateSubtitles

SpecSeg == InitSeg /\ [][NextSeg]_vars

TypeOK ==
    /\ \A j \in JobIds :
          /\ videos[j].status \in {"processing", "completed", "error"}
          /\ videos[j].video_path \in {NULL, output_path(j)}
          /\ task[j].exc \in {"none", "caught", "escaped"}
    /\ Len(task) = Len(videos) /\ Len(handles) = Len(videos)
    /\ \A w \in Workers : running[w] \in {0} \cup JobIds

\* ================================================================ claims
Terminal == {"completed", "error"}

\* the task of job j is over: its coroutine returned or raised
Finished(j) == task[j].pc = "done"

\* C1: every job that generate_video_async has run ends with status
\* completed or error: once the task is over the row is not left 'processing'.
C1_EndsTerminal ==
    \A j \in JobIds : Finished(j) => videos[j].status \in Terminal

\* C2: a completed job has a non-null video_path and an error job has a null
\* video_path, in every reachable state of the videos table.
C2_PathMatchesStatus ==
    \A j \in JobIds :
        /\ videos[j].status = "completed" => videos[j].video_path # NULL
        /\ videos[j].status = "error" => videos[j].video_path = NULL

\* C3: a status only moves processing -> completed or processing -> error,
\* and no step changes a status that is completed or error.
C3_TerminalFinal ==
    [][\A j \in JobIds :
          /\ videos[j].status \in Terminal
                => videos'[j].status = videos[j].status
          /\ videos[j].status = "processing"
                => videos'[j].status \in {"processing"} \cup Terminal]_vars

\* a step that changes the row or a file of job i is a step of job i's task
OwnStep ==
    \A i \in JobIds :
        (\/ videos'[i] # videos[i]
         \/ fs'[audio_path(i)] # fs[audio_path(i)]
         \/ fs'[output_path(i)] # fs[output_path(i)])
        => task'[i].pc # task[i].pc

OwnPaths ==
    \A i \in JobIds :
        /\ fs[audio_path(i)].writer \in {0, i}
        /\ fs[output_path(i)].writer \in {0, i}
        /\ \A j \in JobIds \ {i} :
              {audio_path(i), output_path(i)}
                  \cap {audio_path(j), output_path(j)} = {}

\* C4: jobs with distinct ids write distinct audio and video paths, a step
\* changes only the record and files of the job taking it, and every job
\* whose task is over is in a terminal status whatever the other jobs did.
C4_Isolated ==
    /\ [](OwnPaths /\ \A j \in JobIds : Finished(j) => videos[j].status \in Terminal)
    /\ [][OwnStep]_vars

\* C5: no exception leaves the task, and a job whose exception was caught
\* ends with status error and no video_path.
C5_CaughtAndConverted ==
    \A j \in JobIds :
        /\ task[j].exc # "escaped"
        /\ (Finished(j) /\ task[j].exc = "caught")
              => (videos[j].status = "error" /\ videos[j].video_path = NULL)

\* C6: a file at videos/video_<id>.mp4 exists only if job id is completed.
C6_FileImpliesCompleted ==
    \A j \in JobIds :
        fs[output_path(j)].state # "absent" => videos[j].status = "completed"

\* C7: a job in a terminal status holds no open media handle.
C7_HandlesReleased ==
    \A j \in JobIds : videos[j].status \in Terminal => handles[j] = {}

\* the jobs inside write_videofile that have written the intermediate file
\* and have not yet removed it
Muxing == {j \in JobIds : task[j].pc \in {"enc_video", "enc_exists", "enc_remove"}}

RECURSIVE SumOver(_, _)
SumOver(f, n) == IF n = 0 THEN 0 ELSE f[n] + SumOver(f, n - 1)

RECURSIVE ConcatWords(_, _)
ConcatWords(s, n) ==
    IF n = 0 THEN <<>> ELSE ConcatWords(s, n - 1) \o Split(s[n].text)

ChunkSizes(s) == [i \in 1..Len(s) |-> Len(Split(s[i].text))]

\* C8: for a non-empty text the segments start at 0, each has end > start,
\* each ends where the next starts, and the last end is the sum over the
\* chunks of word count / (words_per_minute / 60).
C8_Contiguous ==
    (seg_called /\ seg_text # <<>>) =>
        LET s == seg_result
            n == Len(s)
            dur == [i \in 1..n |->
                       (ChunkSizes(s)[i] * 60 * 1000) \div words_per_minute]
        IN  /\ Split(seg_text) # <<>> => n > 0
            /\ n > 0 => s[1].start = 0
            /\ \A i \in 1..n : s[i].end > s[i].start
            /\ \A i \in 1..(n - 1) : s[i].end = s[i + 1].start
            /\ n > 0 => s[n].end = SumOver(dur, n)

C8_Witness ==
    /\ seg_called
    /\ Len(seg_result) = 3
    /\ seg_result[2].start = 3200
    /\ seg_result[3].end = 8000

\* C9: an n-word text yields ceil(n/8) segments of exactly 8 words each,
\* except a smaller, non-empty last one; their words in order are the words
\* of the text; the empty text yields the empty list.
C9_Chunks ==
    seg_called =>
        LET s == seg_result
            words == Split(seg_text)
            n == Len(words)
            sizes == ChunkSizes(s)
        IN  /\ Len(s) = (n + 7) \div 8
            /\ \A i \in 1..Len(s) :
                  /\ sizes[i] > 0
                  /\ sizes[i] <= 8
                  /\ i < Len(s) => sizes[i] = 8
            /\ ConcatWords(s, Len(s)) = words
            /\ seg_text = <<>> => s = <<>>

C9_Witness ==
    /\ seg_called
    /\ seg_text = MkText(20, <<0>>, 1)
    /\ ChunkSizes(seg_result) = <<8, 8, 4>>
    /\ ConcatWords(seg_result, 3) = [k \in 1..20 |-> Word(k)]
====
